---- MODULE Spec2Model ----
(***************************************************************************)
(* Model of the courier server core (src/server.go): the lifecycle         *)
(* (Start / Stop, serving task, background workers), the adapter           *)
(* initialization pass with its include/exclude filter, route registration *)
(* (AddChannelRoute), the per-request dispatch wrapper and the index page. *)
(*                                                                         *)
(* Strings are sequences of byte values (ASCII codes), so that lowercasing,*)
(* formatting, padding and sorting are computed as the code computes them. *)
(***************************************************************************)
EXTENDS Integers, Sequences, FiniteSets, TLC

VARIABLES
    includes,            \* config.IncludeChannels: NilList or a List
    excludes,            \* config.ExcludeChannels: NilList or a List
    registeredHandlers,  \* the process-wide table of compiled-in adapters
    activeHandlers,      \* the process-wide table of activated adapters
    initialized,         \* adapters whose Initialize hook was invoked, in order
    routes,              \* server.routes: the route listing (sequence of strings)
    chanRouter,          \* server.chanRouter: the dispatch table
    indexWired,          \* router.Get("/", handleIndex) has been executed
    backendUp,           \* the backend has been started and not stopped
    stopped,             \* server.stopped
    stopChan,            \* server.stopChan: "open" or "closed"
    waitGroup,           \* server.waitGroup: the completion counter
    httpServer,          \* server.httpServer: 0 for nil, else the id of an http.Server
    srv,                 \* per http.Server: its serving task and listener
    workers,             \* per Start call: its background spool flusher
    pc,                  \* per caller thread: position inside Start / Stop
    call,                \* per caller thread: the call in progress or last returned
    reqs,                \* requests accepted so far, with what the wrapper did
    page,                \* body of the route list last written by handleIndex
    crashed,             \* "no", or why the process terminated
    channels,            \* the backend's channels: configuration version by key
    hist                 \* history counters used to state the claims

vars == <<includes, excludes, registeredHandlers, activeHandlers, initialized,
          routes, chanRouter, indexWired, backendUp, stopped, stopChan,
          waitGroup, httpServer, srv, workers, pc, call, reqs, page, crashed,
          channels, hist>>

(***************************************************************************)
(* Bounds of the model.                                                    *)
(***************************************************************************)
MaxCalls == 3       \* Start and Stop calls in one behaviour
MaxRequests == 2    \* HTTP requests in one behaviour
MaxBackendChanges == 1  \* changes of a channel made in the backend
MaxDirectCalls == 3 \* AddChannelRoute calls made outside an Initialize hook

NIL == "nil"

\* a []string of the configuration: the nil slice, or a list of strings
NilList == [nil |-> TRUE, items |-> {}]
List(S) == [nil |-> FALSE, items |-> S]

(***************************************************************************)
(* Strings.                                                                *)
(***************************************************************************)
Lower(c) == IF c \in 65..90 THEN c + 32 ELSE c

\* strings.ToLower
ToLower(s) == [i \in 1..Len(s) |-> Lower(s[i])]

Spaces(n) == [i \in 1..n |-> 32]

\* width of the path column in the route listing: "%-20s"
PadWidth == 20

\* fmt's %-Ns verb: left-justified, padded with spaces, never truncated
PadRight(s, w) == IF Len(s) >= w THEN s ELSE s \o Spaces(w - Len(s))

RECURSIVE StrLessFrom(_, _, _)
StrLessFrom(a, b, i) ==
    IF i > Len(a) THEN i <= Len(b)
    ELSE IF i > Len(b) THEN FALSE
    ELSE IF a[i] = b[i] THEN StrLessFrom(a, b, i + 1)
    ELSE a[i] < b[i]

\* Go's < on strings: bytewise lexicographic order
StrLess(a, b) == StrLessFrom(a, b, 1)

StrLeq(a, b) == a = b \/ StrLess(a, b)

InsertSorted(x, s) ==
    LET k == Cardinality({i \in 1..Len(s) : StrLeq(s[i], x)})
    IN  SubSeq(s, 1, k) \o <<x>> \o SubSeq(s, k + 1, Len(s))

RECURSIVE SortStringsRec(_)
SortStringsRec(s) ==
    IF s = <<>> THEN <<>> ELSE InsertSorted(Head(s), SortStringsRec(Tail(s)))

\* a sort that forgets to order: leaves the slice as it is
SortStringsNoop(s) == s

\* sort.Strings
SortStrings(s) == SortStringsRec(s)

RECURSIVE JoinRec(_, _)
JoinRec(s, sep) ==
    IF s = <<>> THEN <<>>
    ELSE IF Len(s) = 1 THEN s[1]
    ELSE s[1] \o sep \o JoinRec(Tail(s), sep)

\* strings.Join
Join(s, sep) == JoinRec(s, sep)

\* string literals of the source
StrGet == <<103, 101, 116>>                  \* "get"
StrPost == <<112, 111, 115, 116>>            \* "post"
StrSlash == <<47>>                           \* "/"
StrUuidSeg == <<47, 58, 117, 117, 105, 100, 47>>   \* "/:uuid/"
StrMount == <<47, 99>>                       \* "/c"
StrDash == <<32, 45, 32>>                    \* " - "
StrSpace == <<32>>                           \* " "
StrNewline == <<10>>                         \* "\n"

(***************************************************************************)
(* The adapters compiled into the process.  Each has an identity and an    *)
(* Initialize hook that registers its routes one after the other and       *)
(* returns the first error.                                                *)
(***************************************************************************)
Handlers == {"hX", "hKN", "hBD"}

ChannelType(h) ==
    CASE h = "hX"  -> <<88>>                 \* "X"
      [] h = "hKN" -> <<75, 78>>             \* "KN"
      [] h = "hBD" -> <<66, 68>>             \* "BD"

ChannelName(h) ==
    CASE h = "hX"  -> <<69, 120>>            \* "Ex"
      [] h = "hKN" -> <<75, 97, 110>>        \* "Kan"
      [] h = "hBD" -> <<66, 97, 100>>        \* "Bad"

ActReceive == <<114, 101, 99, 101, 105, 118, 101>>            \* "receive"
ActStatus == <<115, 116, 97, 116, 117, 115>>                  \* "status"
ActDelivered == <<100, 101, 108, 105, 118, 101, 114, 101, 100>> \* "delivered"

MGET == <<71, 69, 84>>                       \* "GET"
MPOST == <<80, 79, 83, 84>>                  \* "POST"
MPUT == <<80, 85, 84>>                       \* "PUT"

\* the (method, action) pairs the Initialize hook of h registers, in order
Declared(h) ==
    CASE h = "hX"  -> << <<MGET, ActReceive>> >>
      [] h = "hKN" -> << <<MPOST, ActStatus>>, <<MGET, ActReceive>>,
                         <<MPOST, ActReceive>>, <<MPOST, ActDelivered>> >>
      [] h = "hBD" -> << <<MGET, ActStatus>>, <<MPUT, ActReceive>> >>

(***************************************************************************)
(* Route registration.                                                     *)
(***************************************************************************)
\* fmt.Sprintf("/%s/:uuid/%s/", channelType, action)
RoutePath(channelType, action) ==
    StrSlash \o channelType \o StrUuidSeg \o action \o StrSlash

\* fmt.Sprintf("%-20s - %s %s", "/c"+path, handler.ChannelName(), action)
RouteLine(path, name, action) ==
    PadRight(StrMount \o path, PadWidth) \o StrDash \o name \o StrSpace \o action

\* chi's Mux.Get / Mux.Post: one endpoint per (method, pattern); a second
\* registration of the same method and pattern replaces the first
RouterInsert(tbl, m, p, h, a) ==
    {e \in tbl : ~(e.method = m /\ e.path = p)}
        \cup {[method |-> m, path |-> p, handler |-> h, action |-> a]}

\* a registration that records the route before it looks at the method
AddChannelRouteEager(st, h, method, action) ==
    LET m == ToLower(method)
        path == RoutePath(ToLower(ChannelType(h)), action)
        line == RouteLine(path, ChannelName(h), action)
    IN  IF m = StrGet \/ m = StrPost
        THEN [routes |-> Append(st.routes, line),
              chanRouter |-> RouterInsert(st.chanRouter, m, path, h, action),
              err |-> FALSE]
        ELSE [routes |-> Append(st.routes, line),
              chanRouter |-> st.chanRouter, err |-> TRUE]

\* a registration that lists a route only when its line is not listed yet
AddChannelRouteOnce(st, h, method, action) ==
    LET m == ToLower(method)
        path == RoutePath(ToLower(ChannelType(h)), action)
        line == RouteLine(path, ChannelName(h), action)
    IN  IF m = StrGet \/ m = StrPost
        THEN [routes |-> IF \E k \in DOMAIN st.routes : st.routes[k] = line
                         THEN st.routes ELSE Append(st.routes, line),
              chanRouter |-> RouterInsert(st.chanRouter, m, path, h, action),
              err |-> FALSE]
        ELSE [routes |-> st.routes, chanRouter |-> st.chanRouter, err |-> TRUE]

\* server.AddChannelRoute on st = [routes, chanRouter]; err is its result
AddChannelRoute(st, h, method, action) ==
    LET m == ToLower(method)
        path == RoutePath(ToLower(ChannelType(h)), action)
        line == RouteLine(path, ChannelName(h), action)
    IN  IF m = StrGet \/ m = StrPost
        THEN [routes |-> Append(st.routes, line),
              chanRouter |-> RouterInsert(st.chanRouter, m, path, h, action),
              err |-> FALSE]
        ELSE [routes |-> st.routes, chanRouter |-> st.chanRouter, err |-> TRUE]

\* the Initialize hook of h: registers Declared(h) from position i on,
\* stopping at the first error
RECURSIVE InitializeFrom(_, _, _)
InitializeFrom(st, h, i) ==
    IF i > Len(Declared(h)) THEN [st EXCEPT !.err = FALSE]
    ELSE LET r == AddChannelRoute(st, h, Declared(h)[i][1], Declared(h)[i][2])
         IN  IF r.err THEN r ELSE InitializeFrom(r, h, i + 1)

Initialize(st, h) == InitializeFrom(st, h, 1)

(***************************************************************************)
(* The adapter initialization pass.                                        *)
(***************************************************************************)
\* utils.StringArrayContains
StringArrayContains(arr, str) == str \in arr.items

\* a filter in which a configured include list switches the exclude list off
ActivatedIncludeWins(h) ==
    IF ~includes.nil
    THEN StringArrayContains(includes, ChannelType(h))
    ELSE excludes.nil \/ ~StringArrayContains(excludes, ChannelType(h))

\* a filter that ignores the exclude list altogether
ActivatedNoExclude(h) ==
    includes.nil \/ StringArrayContains(includes, ChannelType(h))

\* the condition under which initializeChannelHandlers initializes h
Activated(h) ==
    /\ includes.nil \/ StringArrayContains(includes, ChannelType(h))
    /\ excludes.nil \/ ~StringArrayContains(excludes, ChannelType(h))

\* the orders in which a range over the map S can visit its entries
Orders(S) ==
    {f \in [1..Cardinality(S) -> S] : \A x \in S : \E i \in DOMAIN f : f[i] = x}

\* a loop that logs the error of an Initialize hook and goes on with the
\* next adapter
RECURSIVE PassFromLenient(_, _)
PassFromLenient(st, order) ==
    IF order = <<>> THEN st
    ELSE LET h == Head(order) IN
         IF ~Activated(h) THEN PassFromLenient(st, Tail(order))
         ELSE LET r == Initialize([routes |-> st.routes,
                                   chanRouter |-> st.chanRouter, err |-> FALSE], h)
              IN  PassFromLenient(
                      [st EXCEPT !.routes = r.routes,
                                 !.chanRouter = r.chanRouter,
                                 !.inits = Append(st.inits, h),
                                 !.active = IF r.err THEN st.active
                                            ELSE st.active \cup {h}],
                      Tail(order))

\* the loop of initializeChannelHandlers over the adapters still to visit;
\* st = [routes, chanRouter, active, inits, fatal]; log.Fatal ends the loop
RECURSIVE PassFrom(_, _)
PassFrom(st, order) ==
    IF order = <<>> THEN st
    ELSE LET h == Head(order) IN
         IF ~Activated(h) THEN PassFrom(st, Tail(order))
         ELSE LET r == Initialize([routes |-> st.routes,
                                   chanRouter |-> st.chanRouter, err |-> FALSE], h)
              IN  IF r.err
                  THEN [st EXCEPT !.routes = r.routes,
                                  !.chanRouter = r.chanRouter,
                                  !.inits = Append(st.inits, h),
                                  !.fatal = TRUE]
                  ELSE PassFrom([st EXCEPT !.routes = r.routes,
                                           !.chanRouter = r.chanRouter,
                                           !.inits = Append(st.inits, h),
                                           !.active = st.active \cup {h}],
                                Tail(order))

\* server.initializeChannelHandlers visiting the adapters in the given order
initializeChannelHandlers(order) ==
    LET r == PassFrom([routes |-> routes, chanRouter |-> chanRouter,
                       active |-> activeHandlers, inits |-> initialized,
                       fatal |-> FALSE], order)
    IN  IF r.fatal THEN r ELSE [r EXCEPT !.routes = SortStrings(r.routes)]

(***************************************************************************)
(* Threads, servers, workers, requests.                                    *)
(***************************************************************************)
\* the threads that call the server: main calls Start and Stop in any
\* sequence, aux calls Stop, possibly while main is inside a call
Callers == {"main", "aux"}
StartCallers == {"main"}

StartIds == 1..MaxCalls

NoCall == [op |-> "none", ret |-> "none", n |-> 0,
           startsAt |-> 0, okAt |-> 0, stopsDoneAt |-> 0, steps |-> <<>>]

NoServer == [task |-> "none", inShutdown |-> FALSE, afterStop |-> FALSE,
             bind |-> "none"]

\* the uuid path parameters a request can carry
UuidParams == {"known", "unknown", "malformed"}

\* the keys of the channels the backend holds: one per channel type, under
\* the uuid that exists
ChannelKeys == {<<ChannelType(h), "known">> : h \in Handlers}

\* no channel
NoChannel == -1

\* Backend.GetChannel: the configuration held under the key, if any
GetChannel(key) == IF key \in DOMAIN channels THEN channels[key] ELSE NoChannel

\* NewChannelUUID: TRUE when the parameter parses as a UUID
NewChannelUUIDOk(u) == u # "malformed"

\* backend.GetChannel finds a channel for this type and UUID
BackendHasChannel(h, u) == u = "known"

Running == crashed = "no"

\* the listener of http.Server i is open
Listening(i) == srv[i].task = "serving" /\ ~srv[i].inShutdown

InFlight(i) ==
    {k \in DOMAIN reqs : reqs[k].srv = i /\ reqs[k].stage \in {"lookup", "handler"}}

ConfigTypes == {ChannelType(h) : h \in Handlers}

\* the filter lists a configuration can hold: absent, or any list of types
ConfigLists == {NilList} \cup {List(S) : S \in SUBSET ConfigTypes}

InitState ==
    /\ activeHandlers = {}
    /\ initialized = <<>>
    /\ routes = <<>>
    /\ chanRouter = {}
    /\ indexWired = FALSE
    /\ backendUp = FALSE
    /\ stopped = FALSE
    /\ stopChan = "open"
    /\ waitGroup = 0
    /\ httpServer = 0
    /\ srv = [i \in StartIds |-> NoServer]
    /\ workers = [i \in StartIds |-> "none"]
    /\ pc = [c \in Callers |-> "idle"]
    /\ call = [c \in Callers |-> NoCall]
    /\ reqs = <<>>
    /\ page = [written |-> FALSE, body |-> <<>>]
    /\ crashed = "no"
    /\ channels = [key \in ChannelKeys |-> 0]
    /\ hist = [starts |-> 0, startsOK |-> 0, stops |-> 0, stopsDone |-> 0,
               closes |-> 0, direct |-> 0, changes |-> 0, calls |-> <<>>,
               last |-> [h |-> NIL, method |-> <<>>, action |-> <<>>, err |-> FALSE]]

\* NewServer, for the configurations of the lifecycle model: no filter (the
\* failing adapter is activated), and an include list
Init ==
    /\ registeredHandlers = Handlers
    /\ \E cfg \in { <<NilList, NilList>>,
                    <<List({ChannelType("hX")}), NilList>> } :
          includes = cfg[1] /\ excludes = cfg[2]
    /\ InitState

\* NewServer, for every set of compiled-in adapters and every configuration
InitAny ==
    /\ registeredHandlers \in SUBSET Handlers
    /\ includes \in ConfigLists
    /\ excludes \in ConfigLists
    /\ InitState

(***************************************************************************)
(* server.Start                                                            *)
(***************************************************************************)
\* a Start that launches the serving task before the initialization pass
StartNextPcServeFirst(pcNow) ==
    CASE pcNow = "idle"        -> "start_spool"
      [] pcNow = "start_spool" -> "start_serve"
      [] pcNow = "start_serve" -> "start_init"
      [] pcNow = "start_init"  -> "idle"

\* the statement of Start that follows the one at pcNow: backend.Start,
\* startSpoolFlushers, the index route and initializeChannelHandlers, the
\* http.Server and its task, return
StartNextPc(pcNow) ==
    CASE pcNow = "idle"        -> "start_spool"
      [] pcNow = "start_spool" -> "start_init"
      [] pcNow = "start_init"  -> "start_serve"
      [] pcNow = "start_serve" -> "idle"

\* a Stop that closes the stop signal before it sets the stopped flag
StopNextPcCloseFirst(pcNow) ==
    CASE pcNow = "idle"          -> "stop_close"
      [] pcNow = "stop_close"    -> "stop_flag"
      [] pcNow = "stop_flag"     -> "stop_shutdown"
      [] pcNow = "stop_shutdown" -> "stop_wait"
      [] pcNow = "stop_wait"     -> "idle"

\* the statement of Stop that follows the one at pcNow: backend.Stop,
\* s.stopped = true, close(s.stopChan), httpServer.Shutdown,
\* waitGroup.Wait, return
StopNextPc(pcNow) ==
    CASE pcNow = "idle"          -> "stop_flag"
      [] pcNow = "stop_flag"     -> "stop_close"
      [] pcNow = "stop_close"    -> "stop_shutdown"
      [] pcNow = "stop_shutdown" -> "stop_wait"
      [] pcNow = "stop_wait"     -> "idle"

\* the record of a call of Start or Stop that just ran its first statement
BeginCall(c, op) ==
    [op |-> op, ret |-> "running",
     n |-> IF op = "Start" THEN hist.starts + 1 ELSE hist.stops + 1,
     startsAt |-> hist.starts, okAt |-> hist.startsOK,
     stopsDoneAt |-> hist.stopsDone, steps |-> <<"backend">>]

\* s.backend.Start() succeeds
StartBackend(c) ==
    /\ Running /\ pc[c] = "idle" /\ hist.starts + hist.stops < MaxCalls
    /\ call' = [call EXCEPT ![c] = BeginCall(c, "Start")]
    /\ hist' = [hist EXCEPT !.starts = @ + 1]
    /\ backendUp' = TRUE
    /\ pc' = [pc EXCEPT ![c] = StartNextPc("idle")]
    /\ UNCHANGED <<includes, excludes, registeredHandlers, activeHandlers,
                   initialized, routes, chanRouter, indexWired, stopped,
                   stopChan, waitGroup, httpServer, srv, workers, reqs, page,
                   crashed, channels>>

\* a Start that starts the background worker before it looks at the error
\* of the backend
StartBackendFailsLate(c) ==
    /\ Running /\ pc[c] = "idle" /\ hist.starts + hist.stops < MaxCalls
    /\ call' = [call EXCEPT ![c] = [BeginCall(c, "Start") EXCEPT !.ret = "err"]]
    /\ hist' = [hist EXCEPT !.starts = @ + 1]
    /\ waitGroup' = waitGroup + 1
    /\ workers' = [workers EXCEPT ![hist.starts + 1] = "running"]
    /\ UNCHANGED <<includes, excludes, registeredHandlers, activeHandlers,
                   initialized, routes, chanRouter, indexWired, backendUp,
                   stopped, stopChan, httpServer, srv, pc, reqs, page, crashed,
                   channels>>

\* s.backend.Start() returns an error: Start returns it
StartBackendFails(c) ==
    /\ Running /\ pc[c] = "idle" /\ hist.starts + hist.stops < MaxCalls
    /\ call' = [call EXCEPT ![c] = [BeginCall(c, "Start") EXCEPT !.ret = "err"]]
    /\ hist' = [hist EXCEPT !.starts = @ + 1]
    /\ UNCHANGED <<includes, excludes, registeredHandlers, activeHandlers,
                   initialized, routes, chanRouter, indexWired, backendUp,
                   stopped, stopChan, waitGroup, httpServer, srv, workers, pc,
                   reqs, page, crashed, channels>>

\* startSpoolFlushers(s): a worker tracked by the completion counter that
\* runs until it sees the stop signal
StartSpoolFlushers(c) ==
    /\ Running /\ pc[c] = "start_spool"
    /\ waitGroup' = waitGroup + 1
    /\ workers' = [workers EXCEPT ![call[c].n] = "running"]
    /\ pc' = [pc EXCEPT ![c] = StartNextPc("start_spool")]
    /\ call' = [call EXCEPT ![c].steps = Append(@, "workers")]
    /\ UNCHANGED <<includes, excludes, registeredHandlers, activeHandlers,
                   initialized, routes, chanRouter, indexWired, backendUp,
                   stopped, stopChan, httpServer, srv, reqs, page, crashed, hist,
                   channels>>

\* s.router.Get("/", s.handleIndex); s.initializeChannelHandlers(), every
\* activated adapter initializing without error
StartInitialize(c) ==
    /\ Running /\ pc[c] = "start_init"
    /\ \E order \in Orders(registeredHandlers) :
          LET r == initializeChannelHandlers(order) IN
          /\ ~r.fatal
          /\ routes' = r.routes
          /\ chanRouter' = r.chanRouter
          /\ activeHandlers' = r.active
          /\ initialized' = r.inits
    /\ indexWired' = TRUE
    /\ pc' = [pc EXCEPT ![c] = StartNextPc("start_init")]
    /\ call' = [call EXCEPT ![c].steps = Append(@, "init")]
    /\ UNCHANGED <<includes, excludes, registeredHandlers, backendUp, stopped,
                   stopChan, waitGroup, httpServer, srv, workers, reqs, page,
                   crashed, hist, channels>>

\* the same, an Initialize hook returning an error: log.Fatal ends the process
StartInitializeFatal(c) ==
    /\ Running /\ pc[c] = "start_init"
    /\ \E order \in Orders(registeredHandlers) :
          LET r == initializeChannelHandlers(order) IN
          /\ r.fatal
          /\ routes' = r.routes
          /\ chanRouter' = r.chanRouter
          /\ activeHandlers' = r.active
          /\ initialized' = r.inits
    /\ indexWired' = TRUE
    /\ crashed' = "fatal"
    /\ call' = [call EXCEPT ![c].steps = Append(@, "init")]
    /\ UNCHANGED <<includes, excludes, registeredHandlers, backendUp, stopped,
                   stopChan, waitGroup, httpServer, srv, workers, pc, reqs, page,
                   hist, channels>>

\* s.httpServer = &http.Server{...}; go func() {...}(); return nil
StartServe(c) ==
    /\ Running /\ pc[c] = "start_serve"
    /\ httpServer' = call[c].n
    /\ srv' = [srv EXCEPT ![call[c].n] =
                  [task |-> "spawned", inShutdown |-> FALSE,
                   afterStop |-> call[c].stopsDoneAt > 0, bind |-> "none"]]
    /\ call' = [call EXCEPT ![c].ret = "nil",
                          ![c].steps = Append(@, "serve")]
    /\ hist' = [hist EXCEPT !.startsOK = @ + 1]
    /\ pc' = [pc EXCEPT ![c] = StartNextPc("start_serve")]
    /\ UNCHANGED <<includes, excludes, registeredHandlers, activeHandlers,
                   initialized, routes, chanRouter, indexWired, backendUp,
                   stopped, stopChan, waitGroup, workers, reqs, page, crashed,
                   channels>>

(***************************************************************************)
(* The serving task launched by Start, and the background worker.          *)
(***************************************************************************)
\* s.waitGroup.Add(1), first statement of the task
ServeAdd(i) ==
    /\ Running /\ srv[i].task = "spawned"
    /\ waitGroup' = waitGroup + 1
    /\ srv' = [srv EXCEPT ![i].task = "added"]
    /\ UNCHANGED <<includes, excludes, registeredHandlers, activeHandlers,
                   initialized, routes, chanRouter, indexWired, backendUp,
                   stopped, stopChan, httpServer, workers, pc, call, reqs, page,
                   crashed, hist, channels>>

\* ListenAndServe binds the port and serves
ServeListen(i) ==
    /\ Running /\ srv[i].task = "added" /\ ~srv[i].inShutdown
    /\ \A j \in StartIds : ~Listening(j)
    /\ srv' = [srv EXCEPT ![i].task = "serving", ![i].bind = "ok"]
    /\ UNCHANGED <<includes, excludes, registeredHandlers, activeHandlers,
                   initialized, routes, chanRouter, indexWired, backendUp,
                   stopped, stopChan, waitGroup, httpServer, workers, pc, call,
                   reqs, page, crashed, hist, channels>>

\* a serving task that returns without the deferred Done
ServeFailsNoDone(i) ==
    /\ Running /\ srv[i].task = "added"
    /\ srv' = [srv EXCEPT ![i].task = "exited",
                          ![i].bind = IF srv[i].inShutdown THEN "closed"
                                      ELSE "failed"]
    /\ UNCHANGED <<includes, excludes, registeredHandlers, activeHandlers,
                   initialized, routes, chanRouter, indexWired, backendUp,
                   stopped, stopChan, waitGroup, httpServer, workers, pc, call,
                   reqs, page, crashed, hist, channels>>

\* ListenAndServe returns without serving (the server was already shut
\* down, or the bind failed); the error is logged and the deferred Done runs
ServeFails(i) ==
    /\ Running /\ srv[i].task = "added"
    /\ waitGroup' = waitGroup - 1
    /\ srv' = [srv EXCEPT ![i].task = "exited",
                          ![i].bind = IF srv[i].inShutdown THEN "closed"
                                      ELSE "failed"]
    /\ UNCHANGED <<includes, excludes, registeredHandlers, activeHandlers,
                   initialized, routes, chanRouter, indexWired, backendUp,
                   stopped, stopChan, httpServer, workers, pc, call, reqs, page,
                   crashed, hist, channels>>

\* ListenAndServe returns ErrServerClosed after Shutdown closed the
\* listener; the deferred Done runs
ServeClosed(i) ==
    /\ Running /\ srv[i].task = "serving" /\ srv[i].inShutdown
    /\ waitGroup' = waitGroup - 1
    /\ srv' = [srv EXCEPT ![i].task = "exited"]
    /\ UNCHANGED <<includes, excludes, registeredHandlers, activeHandlers,
                   initialized, routes, chanRouter, indexWired, backendUp,
                   stopped, stopChan, httpServer, workers, pc, call, reqs, page,
                   crashed, hist, channels>>

\* the worker sees the closed stop signal, returns, and its Done runs
WorkerExit(i) ==
    /\ Running /\ workers[i] = "running" /\ stopChan = "closed"
    /\ waitGroup' = waitGroup - 1
    /\ workers' = [workers EXCEPT ![i] = "exited"]
    /\ UNCHANGED <<includes, excludes, registeredHandlers, activeHandlers,
                   initialized, routes, chanRouter, indexWired, backendUp,
                   stopped, stopChan, httpServer, srv, pc, call, reqs, page,
                   crashed, hist, channels>>

(***************************************************************************)
(* server.Stop                                                             *)
(***************************************************************************)
\* s.backend.Stop() succeeds
StopBackend(c) ==
    /\ Running /\ pc[c] = "idle" /\ hist.starts + hist.stops < MaxCalls
    /\ call' = [call EXCEPT ![c] = BeginCall(c, "Stop")]
    /\ hist' = [hist EXCEPT !.stops = @ + 1]
    /\ backendUp' = FALSE
    /\ pc' = [pc EXCEPT ![c] = StopNextPc("idle")]
    /\ UNCHANGED <<includes, excludes, registeredHandlers, activeHandlers,
                   initialized, routes, chanRouter, indexWired, stopped,
                   stopChan, waitGroup, httpServer, srv, workers, reqs, page,
                   crashed, channels>>

\* s.backend.Stop() returns an error: Stop returns it at once
StopBackendFails(c) ==
    /\ Running /\ pc[c] = "idle" /\ hist.starts + hist.stops < MaxCalls
    /\ call' = [call EXCEPT ![c] = [BeginCall(c, "Stop") EXCEPT !.ret = "err"]]
    /\ hist' = [hist EXCEPT !.stops = @ + 1]
    /\ UNCHANGED <<includes, excludes, registeredHandlers, activeHandlers,
                   initialized, routes, chanRouter, indexWired, backendUp,
                   stopped, stopChan, waitGroup, httpServer, srv, workers, pc,
                   reqs, page, crashed, channels>>

\* s.stopped = true
StopSetStopped(c) ==
    /\ Running /\ pc[c] = "stop_flag"
    /\ stopped' = TRUE
    /\ pc' = [pc EXCEPT ![c] = StopNextPc("stop_flag")]
    /\ call' = [call EXCEPT ![c].steps = Append(@, "flag")]
    /\ UNCHANGED <<includes, excludes, registeredHandlers, activeHandlers,
                   initialized, routes, chanRouter, indexWired, backendUp,
                   stopChan, waitGroup, httpServer, srv, workers, reqs, page,
                   crashed, hist, channels>>

\* close(s.stopChan) on the open channel
StopCloseChan(c) ==
    /\ Running /\ pc[c] = "stop_close" /\ stopChan = "open"
    /\ stopChan' = "closed"
    /\ hist' = [hist EXCEPT !.closes = @ + 1]
    /\ pc' = [pc EXCEPT ![c] = StopNextPc("stop_close")]
    /\ call' = [call EXCEPT ![c].steps = Append(@, "close")]
    /\ UNCHANGED <<includes, excludes, registeredHandlers, activeHandlers,
                   initialized, routes, chanRouter, indexWired, backendUp,
                   stopped, waitGroup, httpServer, srv, workers, reqs, page,
                   crashed, channels>>

\* close(s.stopChan) on the closed channel: the runtime panics
StopCloseClosedChan(c) ==
    /\ Running /\ pc[c] = "stop_close" /\ stopChan = "closed"
    /\ hist' = [hist EXCEPT !.closes = @ + 1]
    /\ crashed' = "panic: close of closed channel"
    /\ call' = [call EXCEPT ![c].steps = Append(@, "close")]
    /\ UNCHANGED <<includes, excludes, registeredHandlers, activeHandlers,
                   initialized, routes, chanRouter, indexWired, backendUp,
                   stopped, stopChan, waitGroup, httpServer, srv, workers, pc,
                   reqs, page, channels>>

\* s.httpServer.Shutdown(nil) with no request in flight: the listener is
\* closed, idle connections are closed, the result is only logged
StopShutdown(c) ==
    /\ Running /\ pc[c] = "stop_shutdown"
    /\ httpServer # 0 /\ InFlight(httpServer) = {}
    /\ srv' = [srv EXCEPT ![httpServer].inShutdown = TRUE]
    /\ pc' = [pc EXCEPT ![c] = StopNextPc("stop_shutdown")]
    /\ call' = [call EXCEPT ![c].steps = Append(@, "shutdown")]
    /\ UNCHANGED <<includes, excludes, registeredHandlers, activeHandlers,
                   initialized, routes, chanRouter, indexWired, backendUp,
                   stopped, stopChan, waitGroup, httpServer, workers, reqs, page,
                   crashed, hist, channels>>

\* s.httpServer.Shutdown(nil) with a request in flight: after closing the
\* listener Shutdown waits on ctx.Done() of the nil context and panics
StopShutdownBusy(c) ==
    /\ Running /\ pc[c] = "stop_shutdown"
    /\ httpServer # 0 /\ InFlight(httpServer) # {}
    /\ srv' = [srv EXCEPT ![httpServer].inShutdown = TRUE]
    /\ crashed' = "panic: nil context"
    /\ call' = [call EXCEPT ![c].steps = Append(@, "shutdown")]
    /\ UNCHANGED <<includes, excludes, registeredHandlers, activeHandlers,
                   initialized, routes, chanRouter, indexWired, backendUp,
                   stopped, stopChan, waitGroup, httpServer, workers, pc, reqs,
                   page, hist, channels>>

\* s.httpServer.Shutdown(nil) when Start never set s.httpServer
StopShutdownNil(c) ==
    /\ Running /\ pc[c] = "stop_shutdown"
    /\ httpServer = 0
    /\ crashed' = "panic: nil pointer"
    /\ call' = [call EXCEPT ![c].steps = Append(@, "shutdown")]
    /\ UNCHANGED <<includes, excludes, registeredHandlers, activeHandlers,
                   initialized, routes, chanRouter, indexWired, backendUp,
                   stopped, stopChan, waitGroup, httpServer, srv, workers, pc,
                   reqs, page, hist, channels>>

\* s.waitGroup.Wait() returns; return nil
StopWait(c) ==
    /\ Running /\ pc[c] = "stop_wait"
    /\ waitGroup = 0
    /\ call' = [call EXCEPT ![c].ret = "nil",
                          ![c].steps = Append(@, "wait")]
    /\ hist' = [hist EXCEPT !.stopsDone = @ + 1]
    /\ pc' = [pc EXCEPT ![c] = StopNextPc("stop_wait")]
    /\ UNCHANGED <<includes, excludes, registeredHandlers, activeHandlers,
                   initialized, routes, chanRouter, indexWired, backendUp,
                   stopped, stopChan, waitGroup, httpServer, srv, workers, reqs,
                   page, crashed, channels>>

(***************************************************************************)
(* Requests: the wrapper of channelFunctionWrapper, and handleIndex.       *)
(***************************************************************************)
NewRequest(i, e, u) ==
    [srv |-> i, handler |-> e.handler, action |-> e.action, uuid |-> u,
     stage |-> "parse", lookups |-> 0, invoked |-> 0, errors |-> 0,
     channel |-> <<>>, outcome |-> "none",
     key |-> <<>>, cfg |-> NoChannel, fresh |-> NoChannel, passed |-> NoChannel]

\* uuid, err := NewChannelUUID(...); if err != nil { WriteError; return }
WrapperParse(q) ==
    IF NewChannelUUIDOk(q.uuid)
    THEN [q EXCEPT !.stage = "lookup"]
    ELSE [q EXCEPT !.stage = "done", !.errors = @ + 1]

\* the arguments of GetChannel: handler.ChannelType() and the parsed uuid
LookupKey(q) == <<ChannelType(q.handler), q.uuid>>

\* a wrapper that calls the handler whatever the lookup returned
WrapperLookupUnchecked(q, found, ch) ==
    [q EXCEPT !.lookups = @ + 1, !.stage = "handler", !.key = LookupKey(q),
              !.channel = IF found THEN <<q.handler, q.uuid>> ELSE <<>>,
              !.cfg = IF found THEN ch ELSE NoChannel]

\* a wrapper that keeps the Channel of an earlier request with the same key
WrapperLookupCached(q, found, ch) ==
    LET prior == {j \in DOMAIN reqs : /\ reqs[j].key = LookupKey(q)
                                      /\ reqs[j].cfg # NoChannel}
    IN  IF found
        THEN [q EXCEPT !.lookups = @ + 1, !.stage = "handler",
                       !.key = LookupKey(q),
                       !.channel = <<q.handler, q.uuid>>,
                       !.cfg = IF prior = {} THEN ch
                               ELSE reqs[CHOOSE j \in prior : TRUE].cfg]
        ELSE [q EXCEPT !.lookups = @ + 1, !.stage = "done", !.errors = @ + 1,
                       !.key = LookupKey(q)]

\* channel, err := s.backend.GetChannel(handler.ChannelType(), uuid);
\* if err != nil { WriteError; return }
\* found: the call returned a channel; ch: the channel it returned
WrapperLookup(q, found, ch) ==
    IF found
    THEN [q EXCEPT !.lookups = @ + 1, !.stage = "handler",
                   !.key = LookupKey(q),
                   !.channel = <<q.handler, q.uuid>>, !.cfg = ch]
    ELSE [q EXCEPT !.lookups = @ + 1, !.stage = "done", !.errors = @ + 1,
                   !.key = LookupKey(q)]

\* what a call of an adapter's handler can do: return nil, return an
\* error, or panic
HandlerOutcomes == {"nil", "err", "panic"}

\* a wrapper that writes an error response after every call of the handler
WrapperInvokeAlwaysWrites(q, outcome) ==
    [q EXCEPT !.invoked = @ + 1, !.stage = "done", !.outcome = outcome,
              !.passed = q.cfg, !.errors = @ + 1]

\* err = handlerFunc(channel, w, r); if err != nil { WriteError }
\* (a panic of the handler leaves the wrapper before the test of err)
WrapperInvoke(q, outcome) ==
    [q EXCEPT !.invoked = @ + 1, !.stage = "done", !.outcome = outcome,
              !.passed = q.cfg,
              !.errors = IF outcome = "err" THEN @ + 1 ELSE @]

\* a router without the recovering middleware, the panic of a handler
\* reaching the top of a goroutine that nothing recovers
RecovererAbsent(outcome) ==
    IF outcome = "panic" THEN "panic: handler" ELSE "no"

\* router.Use(middleware.Recoverer): the state of the process after the
\* handler of a request returned or panicked
Recoverer(outcome) == "no"

\* a request for a registered channel route reaches its wrapper, which
\* parses the uuid path parameter
Dispatch(i) ==
    /\ Running /\ Listening(i) /\ Len(reqs) < MaxRequests
    /\ \E e \in chanRouter, u \in UuidParams :
          reqs' = Append(reqs, WrapperParse(NewRequest(i, e, u)))
    /\ UNCHANGED <<includes, excludes, registeredHandlers, activeHandlers,
                   initialized, routes, chanRouter, indexWired, backendUp,
                   stopped, stopChan, waitGroup, httpServer, srv, workers, pc,
                   call, page, crashed, hist, channels>>

\* the wrapper resolves the channel; the backend may fail for any UUID;
\* fresh records what the backend held under the wrapper's key at the call
Lookup(k) ==
    /\ Running /\ k \in DOMAIN reqs /\ reqs[k].stage = "lookup"
    /\ \E backendOk \in BOOLEAN :
          LET q == reqs[k]
              found == backendOk /\ BackendHasChannel(q.handler, q.uuid)
              ch == GetChannel(LookupKey(q))
          IN  reqs' = [reqs EXCEPT ![k] =
                         [WrapperLookup(q, found, ch) EXCEPT
                             !.fresh = IF found THEN ch ELSE NoChannel]]
    /\ UNCHANGED <<includes, excludes, registeredHandlers, activeHandlers,
                   initialized, routes, chanRouter, indexWired, backendUp,
                   stopped, stopChan, waitGroup, httpServer, srv, workers, pc,
                   call, page, crashed, hist, channels>>

\* the wrapper invokes the adapter's handler, which returns nil, returns an
\* error or panics
Invoke(k) ==
    /\ Running /\ k \in DOMAIN reqs /\ reqs[k].stage = "handler"
    /\ \E outcome \in HandlerOutcomes :
          /\ reqs' = [reqs EXCEPT ![k] = WrapperInvoke(reqs[k], outcome)]
          /\ crashed' = Recoverer(outcome)
    /\ UNCHANGED <<includes, excludes, registeredHandlers, activeHandlers,
                   initialized, routes, chanRouter, indexWired, backendUp,
                   stopped, stopChan, waitGroup, httpServer, srv, workers, pc,
                   call, page, hist, channels>>

\* the operator's tooling changes the configuration of a channel in the
\* backend
BackendChange ==
    /\ hist.changes < MaxBackendChanges
    /\ \E key \in ChannelKeys : channels' = [channels EXCEPT ![key] = @ + 1]
    /\ hist' = [hist EXCEPT !.changes = @ + 1]
    /\ UNCHANGED <<includes, excludes, registeredHandlers, activeHandlers,
                   initialized, routes, chanRouter, indexWired, backendUp,
                   stopped, stopChan, waitGroup, httpServer, srv, workers, pc,
                   call, reqs, page, crashed>>

\* server.handleIndex: the route list it writes
handleIndex(i) ==
    /\ Running /\ Listening(i) /\ indexWired
    /\ page' = [written |-> TRUE, body |-> Join(routes, StrNewline)]
    /\ UNCHANGED <<includes, excludes, registeredHandlers, activeHandlers,
                   initialized, routes, chanRouter, indexWired, backendUp,
                   stopped, stopChan, waitGroup, httpServer, srv, workers, pc,
                   call, reqs, crashed, hist, channels>>

(***************************************************************************)
(* AddChannelRoute called through the Server interface.                    *)
(***************************************************************************)
DirectHandlers == {"hX", "hKN"}

DirectMethods == {MGET, MPUT, StrGet, <<80, 111, 115, 116>>, <<>>}  \* ..., "Post", ""

DirectActions == {ActReceive, ActStatus}

AddChannelRouteCall ==
    /\ Running /\ hist.direct < MaxDirectCalls
    /\ \E h \in DirectHandlers, method \in DirectMethods, action \in DirectActions :
          LET r == AddChannelRoute([routes |-> routes, chanRouter |-> chanRouter,
                                    err |-> FALSE], h, method, action)
          IN  /\ routes' = r.routes
              /\ chanRouter' = r.chanRouter
              /\ hist' = [hist EXCEPT
                    !.direct = @ + 1,
                    !.last = [h |-> h, method |-> method, action |-> action,
                              err |-> r.err],
                    !.calls = IF r.err THEN @
                              ELSE Append(@, <<h, ToLower(method), action>>)]
    /\ UNCHANGED <<includes, excludes, registeredHandlers, activeHandlers,
                   initialized, indexWired, backendUp, stopped, stopChan,
                   waitGroup, httpServer, srv, workers, pc, call, reqs, page,
                   crashed, channels>>

(***************************************************************************)
(* Specifications.                                                         *)
(***************************************************************************)
\* the lifecycle: two caller threads, the tasks they launch, and requests
Next ==
    \/ \E c \in StartCallers : StartBackend(c)
    \/ \E c \in StartCallers : StartBackendFails(c)
    \/ \E c \in StartCallers : StartSpoolFlushers(c)
    \/ \E c \in StartCallers : StartInitialize(c)
    \/ \E c \in StartCallers : StartInitializeFatal(c)
    \/ \E c \in StartCallers : StartServe(c)
    \/ \E i \in StartIds : ServeAdd(i)
    \/ \E i \in StartIds : ServeListen(i)
    \/ \E i \in StartIds : ServeFails(i)
    \/ \E i \in StartIds : ServeClosed(i)
    \/ \E i \in StartIds : WorkerExit(i)
    \/ \E c \in Callers : StopBackend(c)
    \/ \E c \in Callers : StopBackendFails(c)
    \/ \E c \in Callers : StopSetStopped(c)
    \/ \E c \in Callers : StopCloseChan(c)
    \/ \E c \in Callers : StopCloseClosedChan(c)
    \/ \E c \in Callers : StopShutdown(c)
    \/ \E c \in Callers : StopShutdownBusy(c)
    \/ \E c \in Callers : StopShutdownNil(c)
    \/ \E c \in Callers : StopWait(c)
    \/ \E i \in StartIds : Dispatch(i)
    \/ \E k \in 1..MaxRequests : Lookup(k)
    \/ \E k \in 1..MaxRequests : Invoke(k)
    \/ \E i \in StartIds : handleIndex(i)

Spec == Init /\ [][Next]_vars

\* one Start on every configuration, up to the index page
NextStart ==
    \/ hist.starts = 0 /\ StartBackend("main")
    \/ StartSpoolFlushers("main")
    \/ StartInitialize("main")
    \/ StartInitializeFatal("main")
    \/ StartServe("main")
    \/ \E i \in StartIds : ServeAdd(i)
    \/ \E i \in StartIds : ServeListen(i)
    \/ \E i \in StartIds : handleIndex(i)

SpecStart == InitAny /\ [][NextStart]_vars

\* route registration alone
NextRoute == AddChannelRouteCall

SpecRoute == Init /\ [][NextRoute]_vars

\* NewServer, for the configurations of the serving model: the failing
\* adapter excluded, an include list, and no filter
InitServe ==
    /\ registeredHandlers = Handlers
    /\ \E cfg \in { <<NilList, List({ChannelType("hBD")})>>,
                    <<List({ChannelType("hX")}), NilList>>,
                    <<NilList, NilList>> } :
          includes = cfg[1] /\ excludes = cfg[2]
    /\ InitState

\* one Start, then requests against the running server
NextServe ==
    \/ hist.starts = 0 /\ StartBackend("main")
    \/ hist.starts = 0 /\ StartBackendFails("main")
    \/ StartSpoolFlushers("main")
    \/ StartInitialize("main")
    \/ StartInitializeFatal("main")
    \/ StartServe("main")
    \/ \E i \in StartIds : ServeAdd(i)
    \/ \E i \in StartIds : ServeListen(i)
    \/ \E i \in StartIds : Dispatch(i)
    \/ \E k \in 1..MaxRequests : Lookup(k)
    \/ \E k \in 1..MaxRequests : Invoke(k)
    \/ \E i \in StartIds : handleIndex(i)

SpecServe == InitServe /\ [][NextServe]_vars

\* NewServer, for the lookup model: an include list with one adapter
InitLookup ==
    /\ registeredHandlers = Handlers
    /\ includes = List({ChannelType("hX")}) /\ excludes = NilList
    /\ InitState

\* one Start, then requests while the channels change in the backend
NextLookup ==
    \/ hist.starts = 0 /\ StartBackend("main")
    \/ StartSpoolFlushers("main")
    \/ StartInitialize("main")
    \/ StartServe("main")
    \/ \E i \in StartIds : ServeAdd(i)
    \/ \E i \in StartIds : ServeListen(i)
    \/ \E i \in StartIds : Dispatch(i)
    \/ \E k \in 1..MaxRequests : Lookup(k)
    \/ \E k \in 1..MaxRequests : Invoke(k)
    \/ BackendChange

SpecLookup == InitLookup /\ [][NextLookup]_vars

\* the lifecycle without requests: Start and Stop calls of two callers
NextStop ==
    \/ \E c \in StartCallers : StartBackend(c)
    \/ \E c \in StartCallers : StartBackendFails(c)
    \/ \E c \in StartCallers : StartSpoolFlushers(c)
    \/ \E c \in StartCallers : StartInitialize(c)
    \/ \E c \in StartCallers : StartInitializeFatal(c)
    \/ \E c \in StartCallers : StartServe(c)
    \/ \E i \in StartIds : ServeAdd(i)
    \/ \E i \in StartIds : ServeListen(i)
    \/ \E i \in StartIds : ServeFails(i)
    \/ \E i \in StartIds : ServeClosed(i)
    \/ \E i \in StartIds : WorkerExit(i)
    \/ \E c \in Callers : StopBackend(c)
    \/ \E c \in Callers : StopBackendFails(c)
    \/ \E c \in Callers : StopSetStopped(c)
    \/ \E c \in Callers : StopCloseChan(c)
    \/ \E c \in Callers : StopCloseClosedChan(c)
    \/ \E c \in Callers : StopShutdown(c)
    \/ \E c \in Callers : StopShutdownNil(c)
    \/ \E c \in Callers : StopWait(c)

SpecStop == Init /\ [][NextStop]_vars

\* one Start and one Stop by the same caller, with the tasks of the Start
NextOnce ==
    \/ hist.starts = 0 /\ StartBackend("main")
    \/ hist.starts = 0 /\ StartBackendFails("main")
    \/ StartSpoolFlushers("main")
    \/ StartInitialize("main")
    \/ StartInitializeFatal("main")
    \/ StartServe("main")
    \/ \E i \in StartIds : ServeAdd(i)
    \/ \E i \in StartIds : ServeListen(i)
    \/ \E i \in StartIds : ServeFails(i)
    \/ \E i \in StartIds : ServeClosed(i)
    \/ \E i \in StartIds : WorkerExit(i)
    \/ hist.stops = 0 /\ StopBackend("main")
    \/ hist.stops = 0 /\ StopBackendFails("main")
    \/ StopSetStopped("main")
    \/ StopCloseChan("main")
    \/ StopShutdown("main")
    \/ StopShutdownNil("main")
    \/ StopWait("main")

\* the steps of the goroutines: the serving task and the background worker
TaskStep ==
    \E i \in StartIds :
       ServeAdd(i) \/ ServeListen(i) \/ ServeFails(i) \/ ServeClosed(i) \/ WorkerExit(i)

\* the steps of a Stop that is under way
StopStep ==
    \/ StopSetStopped("main")
    \/ StopCloseChan("main")
    \/ StopShutdown("main")
    \/ StopShutdownNil("main")
    \/ StopWait("main")

SpecOnce == InitServe /\ [][NextOnce]_vars

\* the same, the scheduler running every goroutine that can take a step
\* and the caller of Stop going on with its call
SpecOnceFair == SpecOnce /\ WF_vars(TaskStep) /\ WF_vars(StopStep)

(***************************************************************************)
(* Claims about the lifecycle.                                             *)
(***************************************************************************)
TasksExited ==
    \A i \in StartIds : /\ srv[i].task \in {"none", "exited"}
                        /\ workers[i] \in {"none", "exited"}

\* caller c is back from a Stop with the given result, the Stop was called
\* when every Start so far had returned nil, and no Start was called since
StopReturned(c, ret) ==
    /\ pc[c] = "idle" /\ call[c].op = "Stop" /\ call[c].ret = ret
    /\ call[c].okAt >= 1 /\ call[c].okAt = call[c].startsAt
    /\ hist.starts = call[c].startsAt

\* C1: when a Stop called after a successful Start has returned, the
\* completion counter is zero and the serving task and the workers have
\* exited (and, holding in every later state, do not run afterwards)
C1_StopReturnsAfterTasksExit ==
    \A c \in Callers : StopReturned(c, "nil") => waitGroup = 0 /\ TasksExited

\* C2: when a Stop called after a successful Start has returned the
\* backend's error, the remaining shutdown steps were performed: the
\* stopped flag is set, the stop signal is closed, the listener is shut
\* down and the completion counter is zero
C2_StopFinishesShutdownOnBackendError ==
    \A c \in Callers :
        StopReturned(c, "err") =>
            /\ stopped
            /\ stopChan = "closed"
            /\ srv[httpServer].inShutdown
            /\ waitGroup = 0

\* C3: over any sequence of Stop calls, close is executed on the stop
\* signal at most once, and never on the closed signal
C3_StopSignalClosedAtMostOnce ==
    hist.closes <= 1 /\ crashed # "panic: close of closed channel"

\* C4: a server launched by a Start that was called after a Stop had
\* returned never binds the listener (the server does not run again)
C4_NoRestartAfterStopped ==
    \A i \in StartIds : srv[i].afterStop => ~Listening(i)

(***************************************************************************)
(* Claims about the initialization pass.                                   *)
(***************************************************************************)
InitializedSet == {initialized[k] : k \in DOMAIN initialized}

\* the initialization pass of Start has run to its end
PassDone == indexWired /\ crashed = "no"

Included(h) == ChannelType(h) \in includes.items
Excluded(h) == ChannelType(h) \in excludes.items

\* the adapters the spec's activation policy selects in the three cases of C5
PolicySet ==
    IF ~includes.nil /\ includes.items # {} /\ excludes.nil
    THEN {h \in registeredHandlers : Included(h)}
    ELSE IF includes.nil /\ ~excludes.nil
    THEN {h \in registeredHandlers : ~Excluded(h)}
    ELSE registeredHandlers

PolicyCase ==
    \/ ~includes.nil /\ includes.items # {} /\ excludes.nil
    \/ includes.nil

BothLists == ~includes.nil /\ includes.items # {} /\ ~excludes.nil /\ excludes.items # {}

\* C6 as stated: with both lists non-empty, include wins: an adapter is
\* initialized iff its type is in the include list
C6_IncludeWins ==
    (PassDone /\ BothLists) =>
        InitializedSet = {h \in registeredHandlers : Included(h)}

\* C6 amended: with both lists non-empty, an adapter is initialized iff its
\* type is in the include list and not in the exclude list
C6_IncludeAndNotExclude ==
    (PassDone /\ BothLists) =>
        /\ InitializedSet = {h \in registeredHandlers : Included(h) /\ ~Excluded(h)}
        /\ activeHandlers = InitializedSet

C6_Witness ==
    /\ PassDone /\ BothLists
    /\ \E h \in registeredHandlers : Included(h) /\ Excluded(h)
    /\ InitializedSet # {}

(***************************************************************************)
(* Claims about route registration and the index page.                     *)
(***************************************************************************)
SameFold(a, b) ==
    Len(a) = Len(b) /\ \A i \in 1..Len(a) : Lower(a[i]) = Lower(b[i])

\* the method is GET or POST, compared case-insensitively
GetOrPost(m) == SameFold(m, MGET) \/ SameFold(m, MPOST)

\* C7: a call of AddChannelRoute with a method other than GET or POST
\* (case-insensitively) returns the unsupported-method error and leaves the
\* dispatch table and the route listing unchanged
C7_UnsupportedMethodAddsNothing ==
    [][ (hist'.direct # hist.direct /\ ~GetOrPost(hist'.last.method)) =>
            /\ hist'.last.err
            /\ routes' = routes
            /\ chanRouter' = chanRouter ]_vars

C7_Witness ==
    /\ hist.direct > 1 /\ hist.last.err /\ ~GetOrPost(hist.last.method)
    /\ Len(routes) > 0 /\ chanRouter # {}

\* the (adapter, method, action) triples registered successfully so far
RegisteredTriples == {hist.calls[k] : k \in DOMAIN hist.calls}

\* C9 as stated: exactly one entry of the route listing exists per
\* registered (adapter, method, action) triple, also when a triple was
\* registered twice
C9_OneListingEntryPerTriple ==
    Len(routes) = Cardinality(RegisteredTriples)

\* C9 amended: the dispatch table holds exactly one route per registered
\* triple, and the route listing holds one entry per successful call, in
\* call order, so a triple registered twice is listed twice
C9_OneRoutePerTripleOneLinePerCall ==
    /\ Cardinality(chanRouter) = Cardinality(RegisteredTriples)
    /\ \A t \in RegisteredTriples :
          Cardinality({e \in chanRouter :
                          /\ e.handler = t[1] /\ e.method = t[2]
                          /\ e.action = t[3]
                          /\ e.path = RoutePath(ToLower(ChannelType(t[1])), t[3])}) = 1
    /\ Len(routes) = Len(hist.calls)
    /\ \A k \in DOMAIN routes :
          routes[k] = RouteLine(RoutePath(ToLower(ChannelType(hist.calls[k][1])),
                                          hist.calls[k][3]),
                                ChannelName(hist.calls[k][1]), hist.calls[k][3])

C9_Witness ==
    \E i, j \in DOMAIN hist.calls :
        i < j /\ hist.calls[i] = hist.calls[j] /\ routes[i] = routes[j]

RECURSIVE SplitLines(_)
\* the lines of a text joined with "\n"
SplitLines(b) ==
    IF b = <<>> THEN <<>>
    ELSE LET nl == {i \in 1..Len(b) : b[i] = 10} IN
         IF nl = {} THEN <<b>>
         ELSE LET k == CHOOSE i \in nl : \A j \in nl : i <= j
              IN  <<SubSeq(b, 1, k - 1)>> \o SplitLines(SubSeq(b, k + 1, Len(b)))

\* the path column of a line of the route listing
PathOf(line) ==
    LET sp == {i \in 1..Len(line) : line[i] = 32} IN
    IF sp = {} THEN line
    ELSE SubSeq(line, 1, (CHOOSE i \in sp : \A j \in sp : i <= j) - 1)

Count(seq, x) == Cardinality({k \in DOMAIN seq : seq[k] = x})

\* the routes declared by the adapters that the configuration activates
DeclaredRoutes ==
    UNION {{<<h, k>> : k \in DOMAIN Declared(h)} :
              h \in {x \in registeredHandlers : Activated(x)}}

\* the line that describes a declared route: "<path> - <adapter name>
\* <action>", the path below /c/ and padded to the width of its column
ListedLine(hk) ==
    LET h == hk[1]
        a == Declared(h)[hk[2]][2]
    IN  PadRight(StrMount \o StrSlash \o ToLower(ChannelType(h)) \o StrUuidSeg
                    \o a \o StrSlash, PadWidth)
            \o StrDash \o ChannelName(h) \o StrSpace \o a

PageLines == SplitLines(page.body)

\* C10: whatever the order in which the adapters registered their routes,
\* the index page after Start lists the same routes (one line per route
\* declared by an activated adapter) in lexicographic order of their paths
C10_IndexSortedWhateverTheOrder ==
    page.written =>
        /\ \A i, j \in DOMAIN PageLines :
              i < j => StrLeq(PathOf(PageLines[i]), PathOf(PageLines[j]))
        /\ \A k \in DOMAIN PageLines :
              \E hk \in DeclaredRoutes : PageLines[k] = ListedLine(hk)
        /\ \A hk \in DeclaredRoutes :
              Count(PageLines, ListedLine(hk)) =
                 Cardinality({x \in DeclaredRoutes : ListedLine(x) = ListedLine(hk)})

\* the adapter registered first is listed last
C10_Witness ==
    /\ page.written
    /\ initialized = <<"hX", "hKN">>
    /\ Len(PageLines) = 5
    /\ PageLines[5] = ListedLine(<<"hX", 1>>)

(***************************************************************************)
(* Claims about request dispatch.                                          *)
(***************************************************************************)
\* C8: the handler of a request is invoked only if its uuid parsed and the
\* backend resolved a channel for it; a request with a malformed uuid gets
\* an error and neither a lookup nor the handler; a request whose lookup
\* failed (unknown uuid or backend error) gets an error and no handler
C8_HandlerOnlyAfterParseAndLookup ==
    \A k \in DOMAIN reqs :
        LET q == reqs[k] IN
        /\ (q.invoked > 0 \/ q.stage = "handler") =>
              /\ NewChannelUUIDOk(q.uuid)
              /\ q.lookups = 1
              /\ q.channel = <<q.handler, q.uuid>>
              /\ BackendHasChannel(q.handler, q.uuid)
        /\ ~NewChannelUUIDOk(q.uuid) =>
              q.stage = "done" /\ q.errors = 1 /\ q.lookups = 0 /\ q.invoked = 0
        /\ (q.lookups = 1 /\ q.channel = <<>>) =>
              q.stage = "done" /\ q.errors = 1 /\ q.invoked = 0

C8_Witness ==
    \E k \in DOMAIN reqs :
        /\ reqs[k].uuid = "known" /\ reqs[k].stage = "done"
        /\ reqs[k].lookups = 1 /\ reqs[k].channel = <<>> /\ reqs[k].invoked = 0

\* C11: a step of a request (its dispatch with the parse of the uuid, its
\* lookup, the call of its handler, whether it fails, panics or succeeds)
\* leaves the stopped flag, the stop signal, the completion counter, the
\* route listing, the dispatch table, the servers and the process as they
\* were, and changes no other request
C11_RequestLeavesLifecycleAlone ==
    [][ reqs' # reqs =>
            /\ UNCHANGED <<stopped, stopChan, waitGroup, routes, chanRouter,
                           srv, httpServer, crashed>>
            /\ \A k \in DOMAIN reqs :
                  reqs'[k] # reqs[k] =>
                     \A j \in DOMAIN reqs : j # k => reqs'[j] = reqs[j] ]_vars

\* a request failed at its dispatch, a later one panicked, and the server
\* is still listening
C11_Witness ==
    /\ Len(reqs) = 2
    /\ reqs[1].uuid = "malformed" /\ reqs[1].errors = 1
    /\ reqs[2].outcome = "panic"
    /\ \E i \in StartIds : Listening(i)
    /\ crashed = "no"

\* the Initialize hook of h returns an error
InitializeFails(h) ==
    Initialize([routes |-> <<>>, chanRouter |-> {}, err |-> FALSE], h).err

\* an adapter that the configuration activates has a failing Initialize hook
FailingActivated ==
    \E h \in registeredHandlers : Activated(h) /\ InitializeFails(h)

\* C12: when the Initialize hook of an activated adapter fails, no serving
\* task is ever launched (so no listener is bound), no request is ever
\* dispatched, no index page is served and Start never returns success
C12_InitializeErrorAbortsStartup ==
    FailingActivated =>
        /\ \A i \in StartIds : srv[i].task = "none"
        /\ httpServer = 0
        /\ reqs = <<>>
        /\ ~page.written
        /\ hist.startsOK = 0

\* the pass met the failing adapter after it had initialized another one,
\* and the process has exited
C12_Witness ==
    /\ FailingActivated
    /\ crashed = "fatal"
    /\ activeHandlers # {}
    /\ \E k \in DOMAIN initialized : InitializeFails(initialized[k])

\* C13: whatever Start calls, Stop calls and requests are made, the process
\* is running or was ended by the failure of an adapter's Initialize hook
\* during Start; no Stop call ends it
C13_OnlyInitFailureTerminates == crashed \in {"no", "fatal"}

\* the order of the steps of Start
StartOrder == <<"backend", "workers", "init", "serve">>

IsPrefix(a, b) == Len(a) <= Len(b) /\ \A k \in DOMAIN a : a[k] = b[k]

\* the steps of every execution of Start so far follow StartOrder, a serving
\* task exists only when the Start that launches it went through all of
\* them, and every request is served by the serving task of such a Start,
\* after an initialization pass
StartStepsInOrder ==
    /\ \A c \in Callers :
          call[c].op = "Start" =>
             /\ IsPrefix(call[c].steps, StartOrder)
             /\ srv[call[c].n].task # "none" => call[c].steps = StartOrder
    /\ \A k \in DOMAIN reqs :
          srv[reqs[k].srv].task # "none" /\ indexWired

\* a step of a Start whose serving task was launched leaves the routes alone
StartLeavesRoutesAfterServe ==
    \A c \in Callers :
       (/\ call[c].op = "Start" /\ call'[c] # call[c]
        /\ srv[call[c].n].task # "none")
          => UNCHANGED <<routes, chanRouter, activeHandlers, initialized>>

\* C14: every execution of Start runs backend start, worker start, the
\* initialization pass and the launch of the serving task in this order; no
\* request is dispatched before the pass is complete, and Start does not
\* change the routes once its serving task was launched
C14_StartOrder == []StartStepsInOrder /\ [][StartLeavesRoutesAfterServe]_vars

\* Start went through its four steps, the routes are registered and a
\* request was served
C14_Witness ==
    /\ call["main"].steps = StartOrder
    /\ routes # <<>>
    /\ \E k \in DOMAIN reqs : reqs[k].stage = "done" /\ reqs[k].invoked = 1

\* C15: the step in which a Start returns the error of the backend starts
\* no worker, initializes no adapter, registers no route, launches no
\* serving task and leaves the completion counter alone, and that Start ran
\* no other step
C15_BackendStartFailureDoesNothing ==
    [][ \A c \in Callers :
          (call'[c] # call[c] /\ call'[c].op = "Start" /\ call'[c].ret = "err")
             => /\ UNCHANGED <<workers, waitGroup, initialized, activeHandlers,
                               routes, chanRouter, indexWired, srv, httpServer,
                               backendUp, stopped, stopChan, crashed>>
                /\ call'[c].steps = <<"backend">>
                /\ pc'[c] = "idle" ]_vars

\* the only Start returned the error of the backend
C15_Witness ==
    /\ call["main"].op = "Start" /\ call["main"].ret = "err"
    /\ hist.starts = 1 /\ hist.startsOK = 0
    /\ waitGroup = 0 /\ routes = <<>> /\ initialized = <<>>
    /\ \A i \in StartIds : workers[i] = "none" /\ srv[i].task = "none"

\* the completion counter counts the background workers that run and the
\* serving tasks between their Add and their Done
CounterBalanced ==
    waitGroup = Cardinality({i \in StartIds : workers[i] = "running"})
              + Cardinality({i \in StartIds : srv[i].task \in {"added", "serving"}})

\* the serving task of a Start failed to bind the listener
BindFailed == \E i \in StartIds : srv[i].bind = "failed"

\* when the bind failed, the Start that launched the task returned nil and
\* the task has exited
BindFailureIsNotFatal ==
    BindFailed =>
        /\ hist.startsOK = 1 /\ crashed = "no"
        /\ \A i \in StartIds : srv[i].bind = "failed" => srv[i].task = "exited"

\* C16: when the listener fails to bind, Start has returned nil, the serving
\* task exits with the completion counter back to what it was before its
\* Add, and a Stop called afterwards returns
C16_BindFailureStopCompletes ==
    /\ []CounterBalanced
    /\ []BindFailureIsNotFatal
    /\ (BindFailed /\ call["main"].op = "Stop" /\ call["main"].ret = "running")
          ~> (call["main"].op = "Stop" /\ call["main"].ret # "running")

\* the bind failed and the Stop called after it returned nil with the stop
\* signal closed and the counter at zero
C16_Witness ==
    /\ BindFailed
    /\ call["main"].op = "Stop" /\ call["main"].ret = "nil"
    /\ call["main"].steps = <<"backend", "flag", "close", "shutdown", "wait">>
    /\ waitGroup = 0

\* the order of the steps of Stop
StopOrder == <<"backend", "flag", "close", "shutdown", "wait">>

\* the steps of every execution of Stop so far follow StopOrder, and a Stop
\* that returned nil went through all of them
StopStepsInOrder ==
    \A c \in Callers :
       call[c].op = "Stop" =>
          /\ IsPrefix(call[c].steps, StopOrder)
          /\ call[c].ret = "nil" => call[c].steps = StopOrder

\* C17: every execution of Stop runs backend stop, the stopped flag, the
\* close of the stop signal, the shutdown of the listener and the wait in
\* this order; whenever the stop signal is closed the stopped flag is true
\* and a Stop has invoked the backend stop
C17_StopOrder ==
    /\ StopStepsInOrder
    /\ stopChan = "closed" => stopped /\ hist.stops >= 1

\* a Stop went through its five steps and returned
C17_Witness ==
    /\ \E c \in Callers :
          /\ call[c].op = "Stop" /\ call[c].steps = StopOrder
          /\ call[c].ret = "nil"
    /\ stopChan = "closed" /\ stopped

\* C18: shutdown completes: a Stop called after a successful Start that is
\* back at its caller, with nil or with an error, has closed the stop signal
\* and no background worker is still running
C18_ShutdownAlwaysCompletes ==
    \A c \in Callers :
       (call[c].op = "Stop" /\ call[c].okAt >= 1 /\ call[c].ret # "running")
          => /\ stopChan = "closed"
             /\ \A i \in StartIds : workers[i] # "running"

\* the uuid of request q parsed and its channel resolved
Resolved(q) == q.channel # <<>>

\* C19: a request whose uuid parsed and whose channel resolved has its
\* handler invoked exactly once when the wrapper is done with it (and not
\* at all before); the wrapper wrote one error response when the handler
\* returned an error and none when it returned nil
C19_HandlerOnceErrorResponseIffError ==
    \A k \in DOMAIN reqs :
       LET q == reqs[k] IN
       /\ q.invoked <= 1
       /\ (Resolved(q) /\ q.stage = "handler") => q.invoked = 0 /\ q.errors = 0
       /\ (Resolved(q) /\ q.stage = "done") =>
             /\ q.invoked = 1
             /\ q.outcome = "err" => q.errors = 1
             /\ q.outcome = "nil" => q.errors = 0

\* one request whose handler returned an error and one whose handler
\* returned nil, both over
C19_Witness ==
    /\ Len(reqs) = 2
    /\ Resolved(reqs[1]) /\ reqs[1].stage = "done" /\ reqs[1].outcome = "err"
    /\ reqs[1].errors = 1
    /\ Resolved(reqs[2]) /\ reqs[2].stage = "done" /\ reqs[2].outcome = "nil"
    /\ reqs[2].errors = 0

\* C20: every request with a well-formed uuid makes exactly one lookup when
\* the wrapper is past it (none before, and none when the uuid is
\* malformed), under the key made of the ChannelType of the adapter that
\* registered the route and of the parsed uuid; the Channel of a resolved
\* request is the one the backend held at that lookup, and it is the one
\* the handler is called with
C20_ChannelResolvedPerRequest ==
    \A k \in DOMAIN reqs :
       LET q == reqs[k] IN
       /\ ~NewChannelUUIDOk(q.uuid) => q.lookups = 0
       /\ q.stage = "lookup" => q.lookups = 0
       /\ (NewChannelUUIDOk(q.uuid) /\ q.stage \in {"handler", "done"}) =>
             /\ q.lookups = 1
             /\ q.key = <<ChannelType(q.handler), q.uuid>>
       /\ Resolved(q) => q.cfg = q.fresh /\ q.cfg # NoChannel
       /\ q.invoked = 1 => q.passed = q.cfg

\* two requests for the same channel, the channel changed in the backend
\* between their lookups, and the handler of the second was called with the
\* changed channel
C20_Witness ==
    /\ Len(reqs) = 2
    /\ reqs[1].key = reqs[2].key
    /\ reqs[1].invoked = 1 /\ reqs[2].invoked = 1
    /\ reqs[1].passed = 0
    /\ reqs[2].passed = 1 /\ channels[reqs[2].key] = 1

====
